---------------------------- MODULE Spec2Model ----------------------------
(***************************************************************************)
(* Model of the matching engine of ai-opportunity-bot                      *)
(* (src/backend/ai/matcher.py, class MatchingEngine) and of the fetch loop *)
(* of its crawlers (src/backend/crawlers/base_crawler.py, BaseCrawler).    *)
(*                                                                         *)
(* Representation.                                                         *)
(*  - A Python str is a sequence of one-character strings, so that lower() *)
(*    and the substring test `a in b` are computed, not assumed.           *)
(*  - A dict entry is a record [k, v]: k = "absent" (no such key),         *)
(*    k = "null" (key present, value None) or k = "val" (value v).         *)
(*  - A Python float score is a fixed-point integer.  A factor score of p  *)
(*    points is p * FUnit; a weighted total of p points is                 *)
(*    p * FUnit * WUnit, the weights being integers in units of 1/WUnit.   *)
(*  - A call's outcome is [kind |-> "ok", v |-> value] or                  *)
(*    [kind |-> "raise", e |-> exception name].                            *)
(***************************************************************************)
EXTENDS Integers, Sequences, FiniteSets, TLC

VARIABLES
    fpErr,      \* rounding of the float quotient of _cosine_similarity, fixed for a run
    profile,    \* the profile built by create_user_profile ([built |-> FALSE] before)
    arg,        \* the opportunity handed to a direct calculate_match_score call
    res,        \* outcome of the last direct calculate_match_score call
    opps,       \* the caller's list of opportunity dicts (the objects rank mutates)
    opps0,      \* the caller's list as it was when the ranking pass started
    ranked,     \* the list rank_opportunities returned: indices into opps (same objects)
    rankI,      \* number of opportunities the ranking loop has scored
    filt,       \* outcome and arguments of the last filter_opportunities call
    calls,      \* embedding requests made so far, by kind of text
    err,        \* the exception that ended the current operation ("none" if none)
    pc,         \* position of the caller in the session
    crawl       \* one BaseCrawler.crawl(url) call: its locals, what it did, its outcome

\* The variables of the matching engine and its caller.
matcher_vars == <<fpErr, profile, arg, res, opps, opps0, ranked, rankI, filt, calls, err, pc>>

vars == <<fpErr, profile, arg, res, opps, opps0, ranked, rankI, filt, calls, err, pc, crawl>>

---------------------------------------------------------------------------
(* Bounds of the model *)

\* Longest list of opportunities handed to rank_opportunities.
MaxOpps == 3

\* Number of fields in which an opportunity of ScoreInputs may differ from a base one.
MaxDiff == 2

---------------------------------------------------------------------------
(* Fixed point *)

\* Units per point of a factor score (divisible by every keyword-list length used).
FUnit == 60

\* Units of the weights: 0.40 is 40.
WUnit == 100

P(points) == points * FUnit

Hundred == 100 * FUnit * WUnit

Max2(a, b) == IF a >= b THEN a ELSE b

Min2(a, b) == IF a <= b THEN a ELSE b

---------------------------------------------------------------------------
(* Python values *)

Ok(v) == [kind |-> "ok", v |-> v, e |-> "none"]

Raise(e) == [kind |-> "raise", v |-> 0, e |-> e]

Val(v) == [k |-> "val", v |-> v]

AbsentS == [k |-> "absent", v |-> <<>>]

NullS == [k |-> "null", v |-> <<>>]

AbsentB == [k |-> "absent", v |-> FALSE]

NullB == [k |-> "null", v |-> FALSE]

AbsentN == [k |-> "absent", v |-> 0]

\* bool(x) of a str/list entry fetched with dict.get(key): None and empty are falsy.
Truthy(x) == x.k = "val" /\ x.v # <<>>

\* bool(x) of a bool entry fetched with dict.get(key).
TruthyB(x) == x.k = "val" /\ x.v

\* (dict.get(key) or ''): the value, or '' when the key is absent or None.
OrEmpty(x) == IF x.k = "val" THEN x.v ELSE <<>>

UpperChars == <<"A", "B", "C", "D", "E", "F", "G", "H", "I", "J", "K", "L", "M",
                "N", "O", "P", "Q", "R", "S", "T", "U", "V", "W", "X", "Y", "Z">>

LowerChars == <<"a", "b", "c", "d", "e", "f", "g", "h", "i", "j", "k", "l", "m",
                "n", "o", "p", "q", "r", "s", "t", "u", "v", "w", "x", "y", "z">>

LowerChar(c) ==
    IF \E i \in 1..Len(UpperChars) : UpperChars[i] = c
    THEN LowerChars[CHOOSE i \in 1..Len(UpperChars) : UpperChars[i] = c]
    ELSE c

\* str.lower()
lower(s) == [i \in 1..Len(s) |-> LowerChar(s[i])]

\* needle in hay, on strings
Contains(needle, hay) ==
    \E i \in 0..(Len(hay) - Len(needle)) : SubSeq(hay, i + 1, i + Len(needle)) = needle

\* x in list
Member(x, list) == \E i \in 1..Len(list) : list[i] = x

RECURSIVE join(_, _)
\* sep.join(list)
join(sep, list) ==
    IF Len(list) = 0 THEN <<>>
    ELSE IF Len(list) = 1 THEN list[1]
    ELSE list[1] \o sep \o join(sep, Tail(list))

s_entry_level == <<"e", "n", "t", "r", "y", " ", "l", "e", "v", "e", "l">>
s_junior == <<"j", "u", "n", "i", "o", "r">>
s_internship == <<"i", "n", "t", "e", "r", "n", "s", "h", "i", "p">>
s_graduate == <<"g", "r", "a", "d", "u", "a", "t", "e">>
s_mid_level == <<"m", "i", "d", " ", "l", "e", "v", "e", "l">>
s_2_5_years == <<"2", "-", "5", " ", "y", "e", "a", "r", "s">>
s_3plus_years == <<"3", "+", " ", "y", "e", "a", "r", "s">>
s_senior == <<"s", "e", "n", "i", "o", "r">>
s_5plus_years == <<"5", "+", " ", "y", "e", "a", "r", "s">>
s_lead == <<"l", "e", "a", "d">>
s_principal == <<"p", "r", "i", "n", "c", "i", "p", "a", "l">>
s_job == <<"j", "o", "b">>
s_comma_space == <<",", " ">>
s_space == <<" ">>
s_bachelor == <<"b", "a", "c", "h", "e", "l", "o", "r">>
s_Python == <<"P", "y", "t", "h", "o", "n">>
s_SQL == <<"S", "Q", "L">>
s_Cooking == <<"C", "o", "o", "k", "i", "n", "g">>
s_Austin_TX == <<"A", "u", "s", "t", "i", "n", ",", " ", "T", "X">>
s_Berlin == <<"B", "e", "r", "l", "i", "n">>
s_Austin == <<"A", "u", "s", "t", "i", "n">>
s_Internship == <<"I", "n", "t", "e", "r", "n", "s", "h", "i", "p">>
s_grant == <<"g", "r", "a", "n", "t">>
s_Junior_dev == <<"J", "u", "n", "i", "o", "r", " ", "d", "e", "v">>
s_Senior_graduate == <<"S", "e", "n", "i", "o", "r", " ", "g", "r", "a", "d", "u", "a", "t", "e">>
s_Team_lead == <<"T", "e", "a", "m", " ", "l", "e", "a", "d">>
s_Google_LLC == <<"G", "o", "o", "g", "l", "e", " ", "L", "L", "C">>
s_google == <<"g", "o", "o", "g", "l", "e">>
s_Acme == <<"A", "c", "m", "e">>
s_AI_dev == <<"A", "I", " ", "d", "e", "v">>
s_ai == <<"a", "i">>
s_AI == <<"A", "I">>
s_ml == <<"m", "l">>
s_50k == <<"5", "0", "k">>

---------------------------------------------------------------------------
(* The embedding provider (SentenceTransformer.encode) and cosine similarity *)

\* self.model.encode(text): a deterministic stub, one vector of norm 5 per text.
encode(text) ==
    CASE text = s_Python -> <<3, 4>>
      [] text = s_SQL -> <<4, 3>>
      [] text = s_Cooking -> <<-3, -4>>
      [] OTHER -> <<5, 0>>

dot(v1, v2) == v1[1] * v2[1] + v1[2] * v2[2]

\* np.linalg.norm(v), for the vectors of encode (integer norms)
norm(v) == CHOOSE r \in 0..(Max2(v[1], -v[1]) + Max2(v[2], -v[2])) : r * r = dot(v, v)

\* _cosine_similarity times 100 * FUnit: the float quotient, which rounds to within
\* fe units of the exact value (so parallel vectors may give slightly more than 1.0).
_cosine_similarity(vec1, vec2, fe) ==
    (dot(vec1, vec2) * 100 * FUnit) \div (norm(vec1) * norm(vec2)) + fe

---------------------------------------------------------------------------
(* create_user_profile *)

\* user_data.get(key, default)
GetOr(x, default) == IF x.k = "absent" THEN default ELSE x.v

\* create_user_profile without the tests of lines 56 and 60: both texts are embedded
\* whether or not their list is empty.
create_user_profile_embedding_always(user_data) ==
    LET skills == GetOr(user_data.skills, <<>>)
        interests == GetOr(user_data.interests, <<>>)
    IN  [built |-> TRUE,
         skills |-> skills,
         interests |-> interests,
         education_level |-> GetOr(user_data.education, s_bachelor),
         experience_years |-> GetOr(user_data.experience, 0),
         preferred_locations |-> GetOr(user_data.locations, <<>>),
         preferred_types |-> GetOr(user_data.types, <<s_job, s_internship>>),
         remote_only |-> GetOr(user_data.remote_only, FALSE),
         target_companies |-> GetOr(user_data.companies, <<>>),
         salary_min |-> GetOr(user_data.salary_min, 0),
         keywords |-> GetOr(user_data.keywords, <<>>),
         skills_text |-> Val(join(s_comma_space, skills)),
         skills_embedding |-> Val(encode(join(s_comma_space, skills))),
         interests_text |-> Val(join(s_comma_space, interests)),
         interests_embedding |-> Val(encode(join(s_comma_space, interests)))]

create_user_profile(user_data) ==
    LET skills == GetOr(user_data.skills, <<>>)
        interests == GetOr(user_data.interests, <<>>)
    IN  [built |-> TRUE,
         skills |-> skills,
         interests |-> interests,
         education_level |-> GetOr(user_data.education, s_bachelor),
         experience_years |-> GetOr(user_data.experience, 0),
         preferred_locations |-> GetOr(user_data.locations, <<>>),
         preferred_types |-> GetOr(user_data.types, <<s_job, s_internship>>),
         remote_only |-> GetOr(user_data.remote_only, FALSE),
         target_companies |-> GetOr(user_data.companies, <<>>),
         salary_min |-> GetOr(user_data.salary_min, 0),
         keywords |-> GetOr(user_data.keywords, <<>>),
         skills_text |-> IF skills # <<>> THEN Val(join(s_comma_space, skills)) ELSE AbsentS,
         skills_embedding |-> IF skills # <<>>
                              THEN Val(encode(join(s_comma_space, skills)))
                              ELSE AbsentS,
         interests_text |-> IF interests # <<>>
                            THEN Val(join(s_comma_space, interests))
                            ELSE AbsentS,
         interests_embedding |-> IF interests # <<>>
                                 THEN Val(encode(join(s_comma_space, interests)))
                                 ELSE AbsentS]

NoProfile == [create_user_profile([skills |-> AbsentS, interests |-> AbsentS,
                 education |-> AbsentS, experience |-> AbsentN, locations |-> AbsentS,
                 types |-> AbsentS, remote_only |-> AbsentB, companies |-> AbsentS,
                 salary_min |-> AbsentN, keywords |-> AbsentS])
              EXCEPT !.built = FALSE]

---------------------------------------------------------------------------
(* Factor scorers *)

\* _match_location with the partial credit of line 156 tested before the preferred
\* list of lines 151-153.
_match_location_remote_first(opportunity, user_profile) ==
    LET opp_location == lower(OrEmpty(opportunity.location))
        preferred == [i \in 1..Len(user_profile.preferred_locations) |->
                         lower(user_profile.preferred_locations[i])]
    IN  IF user_profile.remote_only /\ TruthyB(opportunity.remote) THEN P(100)
        ELSE IF TruthyB(opportunity.remote) THEN P(70)
        ELSE IF \E i \in 1..Len(preferred) : Contains(preferred[i], opp_location)
             THEN P(100)
        ELSE P(0)

_match_location(opportunity, user_profile) ==
    LET opp_location == lower(OrEmpty(opportunity.location))
        preferred == [i \in 1..Len(user_profile.preferred_locations) |->
                         lower(user_profile.preferred_locations[i])]
    IN  IF user_profile.remote_only /\ TruthyB(opportunity.remote) THEN P(100)
        ELSE IF \E i \in 1..Len(preferred) : Contains(preferred[i], opp_location)
             THEN P(100)
        ELSE IF TruthyB(opportunity.remote) THEN P(70)
        ELSE P(0)

_match_type(opportunity, user_profile) ==
    LET opp_type == lower(IF Truthy(opportunity.type) THEN opportunity.type.v ELSE s_job)
    IN  IF Member(opp_type, user_profile.preferred_types) THEN P(100) ELSE P(0)

AnyIn(words, text) == \E w \in words : Contains(w, text)

\* _match_experience with the tiers tested in the order senior, mid, entry.
_match_experience_senior_first(opportunity, user_profile) ==
    IF opportunity.requirements.k = "null" THEN Raise("TypeError")
    ELSE
    LET description == lower(OrEmpty(opportunity.description))
        requirements == lower(join(s_space, OrEmpty(opportunity.requirements)))
        combined == description \o s_space \o requirements
        user_exp == user_profile.experience_years
    IN  IF AnyIn({s_senior, s_5plus_years, s_lead, s_principal}, combined)
        THEN Ok(IF user_exp >= 5 THEN P(100) ELSE P(30))
        ELSE IF AnyIn({s_mid_level, s_2_5_years, s_3plus_years}, combined)
        THEN Ok(IF 2 <= user_exp /\ user_exp <= 5 THEN P(100) ELSE P(50))
        ELSE IF AnyIn({s_entry_level, s_junior, s_internship, s_graduate}, combined)
        THEN Ok(IF user_exp <= 2 THEN P(100) ELSE P(50))
        ELSE Ok(P(50))

\* ' '.join(None) raises TypeError: requirements present with value None.
_match_experience(opportunity, user_profile) ==
    IF opportunity.requirements.k = "null" THEN Raise("TypeError")
    ELSE
    LET description == lower(OrEmpty(opportunity.description))
        requirements == lower(join(s_space, OrEmpty(opportunity.requirements)))
        combined == description \o s_space \o requirements
        user_exp == user_profile.experience_years
    IN  IF AnyIn({s_entry_level, s_junior, s_internship, s_graduate}, combined)
        THEN Ok(IF user_exp <= 2 THEN P(100) ELSE P(50))
        ELSE IF AnyIn({s_mid_level, s_2_5_years, s_3plus_years}, combined)
        THEN Ok(IF 2 <= user_exp /\ user_exp <= 5 THEN P(100) ELSE P(50))
        ELSE IF AnyIn({s_senior, s_5plus_years, s_lead, s_principal}, combined)
        THEN Ok(IF user_exp >= 5 THEN P(100) ELSE P(30))
        ELSE Ok(P(50))

_match_company(opportunity, user_profile) ==
    IF user_profile.target_companies = <<>> THEN P(50)
    ELSE
    LET opp_company == lower(OrEmpty(opportunity.company))
        target_companies == [i \in 1..Len(user_profile.target_companies) |->
                                lower(user_profile.target_companies[i])]
    IN  IF \E i \in 1..Len(target_companies) : Contains(target_companies[i], opp_company)
        THEN P(100)
        ELSE P(0)

\* _match_keywords over the set of distinct keywords: a keyword listed twice counts once.
_match_keywords_deduplicated(opportunity, user_profile) ==
    IF user_profile.keywords = <<>> THEN Ok(P(50))
    ELSE IF \/ opportunity.title.k = "null"
            \/ opportunity.description.k = "null"
            \/ opportunity.skills.k = "null"
    THEN Raise("TypeError")
    ELSE
    LET opp_text == lower(join(s_space, <<opportunity.title.v,
                                          opportunity.description.v,
                                          join(s_space, opportunity.skills.v)>>))
        keywords == {lower(user_profile.keywords[i]) : i \in 1..Len(user_profile.keywords)}
        matches == Cardinality({kw \in keywords : Contains(kw, opp_text)})
    IN  Ok((matches * 100 * FUnit) \div Cardinality(keywords))

\* dict.get(key, ''): '' only when the key is absent; a None value stays None and
\* ' '.join([... None ...]) or ' '.join(None) raises TypeError.
_match_keywords(opportunity, user_profile) ==
    IF user_profile.keywords = <<>> THEN Ok(P(50))
    ELSE IF \/ opportunity.title.k = "null"
            \/ opportunity.description.k = "null"
            \/ opportunity.skills.k = "null"
    THEN Raise("TypeError")
    ELSE
    LET opp_text == lower(join(s_space, <<opportunity.title.v,
                                          opportunity.description.v,
                                          join(s_space, opportunity.skills.v)>>))
        keywords == [i \in 1..Len(user_profile.keywords) |-> lower(user_profile.keywords[i])]
        matches == Cardinality({i \in 1..Len(keywords) : Contains(keywords[i], opp_text)})
    IN  Ok((matches * 100 * FUnit) \div Len(keywords))

---------------------------------------------------------------------------
(* calculate_match_score *)

W_SKILL == 40

W_LOCATION == 20

W_TYPE == 15

W_EXPERIENCE == 10

W_COMPANY == 10

W_KEYWORDS == 5

RECURSIVE SumSeq(_)
SumSeq(seq) == IF Len(seq) = 0 THEN 0 ELSE seq[1] + SumSeq(Tail(seq))

RECURSIVE DotSum(_, _)
DotSum(scores, weights) ==
    IF Len(scores) = 0 \/ Len(weights) = 0 THEN 0
    ELSE scores[1] * weights[1] + DotSum(Tail(scores), Tail(weights))

\* The weighted sum divided by the sum of the weights used (renormalisation).
weighted_sum_renormalised(scores, weights) ==
    (DotSum(scores, weights) * WUnit) \div SumSeq(weights)

RECURSIVE weighted_sum(_, _)
\* sum(s * w for s, w in zip(scores, weights))
weighted_sum(scores, weights) ==
    IF Len(scores) = 0 \/ Len(weights) = 0 THEN 0
    ELSE scores[1] * weights[1] + weighted_sum(Tail(scores), Tail(weights))

\* score *= 0.5, exact on a float
Halve(score) == (score * 5) \div 10

\* _apply_modifiers with the test of line 231 inverted: open opportunities are halved.
_apply_modifiers_inverted(base_score, opportunity, user_profile) ==
    LET is_still_open == IF opportunity.is_still_open.k = "absent"
                         THEN Val(TRUE)
                         ELSE opportunity.is_still_open
    IN  IF TruthyB(is_still_open) THEN Halve(base_score) ELSE base_score

\* _apply_modifiers with the compensation branch of lines 235-238 filled in: a bonus of
\* five points when the opportunity names a compensation and the profile a minimum.
_apply_modifiers_compensation_bonus(base_score, opportunity, user_profile) ==
    LET is_still_open == IF opportunity.is_still_open.k = "absent"
                         THEN Val(TRUE)
                         ELSE opportunity.is_still_open
        score == IF ~TruthyB(is_still_open) THEN Halve(base_score) ELSE base_score
    IN  IF Truthy(opportunity.compensation) /\ user_profile.salary_min # 0
        THEN score + 5 * FUnit * WUnit
        ELSE score

\* The compensation branch (lines 235-238) is `pass`.
_apply_modifiers(base_score, opportunity, user_profile) ==
    LET is_still_open == IF opportunity.is_still_open.k = "absent"
                         THEN Val(TRUE)
                         ELSE opportunity.is_still_open
    IN  IF ~TruthyB(is_still_open) THEN Halve(base_score) ELSE base_score

\* clamp without the clamp: the total is returned as computed.
clamp_none(total_score) == total_score

\* max(0, min(100, total_score))
clamp(total_score) == Max2(0, Min2(Hundred, total_score))

\* The condition of line 89.
SkillIncluded(opportunity, user_profile) ==
    Truthy(opportunity.skills) /\ user_profile.skills_embedding.k = "val"

\* The scores list of lines 85-126 (a scorer that raises contributes nothing: the
\* call ends there).
factor_scores(opportunity, user_profile, fe) ==
    (IF SkillIncluded(opportunity, user_profile)
     THEN <<Max2(0, _cosine_similarity(
                        encode(join(s_comma_space, opportunity.skills.v)),
                        user_profile.skills_embedding.v, fe))>>
     ELSE <<>>) \o
    <<_match_location(opportunity, user_profile),
      _match_type(opportunity, user_profile),
      _match_experience(opportunity, user_profile).v,
      _match_company(opportunity, user_profile),
      _match_keywords(opportunity, user_profile).v>>

\* The weights list of lines 86-126.
factor_weights(opportunity, user_profile) ==
    (IF SkillIncluded(opportunity, user_profile) THEN <<W_SKILL>> ELSE <<>>) \o
    <<W_LOCATION, W_TYPE, W_EXPERIENCE, W_COMPANY, W_KEYWORDS>>

\* calculate_match_score with a memory: an opportunity that already carries a
\* match_score is taken as seen before and gets half of what it would get.
calculate_match_score_penalising_scored(opportunity, user_profile, encodeOk, fe) ==
    LET experience == _match_experience(opportunity, user_profile)
        keyword == _match_keywords(opportunity, user_profile)
        total_score == DotSum(factor_scores(opportunity, user_profile, fe),
                              factor_weights(opportunity, user_profile))
        score == Max2(0, Min2(Hundred, _apply_modifiers(total_score, opportunity,
                                                        user_profile)))
    IN  IF SkillIncluded(opportunity, user_profile) /\ ~encodeOk
        THEN Raise("EmbeddingError")
        ELSE IF experience.kind = "raise" THEN experience
        ELSE IF keyword.kind = "raise" THEN keyword
        ELSE Ok(IF opportunity.match_score.k = "val" THEN Halve(score) ELSE score)

\* encodeOk: whether the provider answers the request of line 91 (it raises otherwise,
\* and nothing in the engine catches it).
calculate_match_score(opportunity, user_profile, encodeOk, fe) ==
    LET experience == _match_experience(opportunity, user_profile)
        keyword == _match_keywords(opportunity, user_profile)
        total_score == weighted_sum(factor_scores(opportunity, user_profile, fe),
                                    factor_weights(opportunity, user_profile))
    IN  IF SkillIncluded(opportunity, user_profile) /\ ~encodeOk
        THEN Raise("EmbeddingError")
        ELSE IF experience.kind = "raise" THEN experience
        ELSE IF keyword.kind = "raise" THEN keyword
        ELSE Ok(clamp(_apply_modifiers(total_score, opportunity, user_profile)))

\* The embedding requests one calculate_match_score call makes while it also embedded
\* the profile's skills text anew.
score_requests_reembedding_profile(opportunity, user_profile) ==
    [profile |-> IF SkillIncluded(opportunity, user_profile) THEN 1 ELSE 0,
     opp |-> IF SkillIncluded(opportunity, user_profile) THEN 1 ELSE 0]

\* The embedding requests one calculate_match_score call makes, by kind of text: the
\* opportunity's skills text under the condition of line 89 (line 91), and the stored
\* profile embedding is read, not requested (lines 94-97).
score_requests(opportunity, user_profile) ==
    [profile |-> 0,
     opp |-> IF SkillIncluded(opportunity, user_profile) THEN 1 ELSE 0]

\* The request counts after the requests `new` were made.
Requested(made, new) ==
    [profile |-> made.profile + new.profile, opp |-> made.opp + new.opp]

---------------------------------------------------------------------------
(* rank_opportunities and filter_opportunities *)

HasScore(opp) == opp.match_score.k = "val"

\* Position at which sorted(..., reverse=True) places an element of key `score`
\* among the already placed ones: after every element whose key is >= score.
InsertAt(opportunities, placed, score) ==
    Cardinality({j \in 1..Len(placed) : opportunities[placed[j]].match_score.v >= score})

RECURSIVE SortFrom(_, _, _)
SortFrom(opportunities, placed, i) ==
    IF i > Len(opportunities) THEN placed
    ELSE LET at == InsertAt(opportunities, placed, opportunities[i].match_score.v)
         IN  SortFrom(opportunities,
                      SubSeq(placed, 1, at) \o <<i>> \o SubSeq(placed, at + 1, Len(placed)),
                      i + 1)

\* An ascending sort reversed: descending, but equal keys come out in reverse input order.
sorted_asc_reversed(opportunities) ==
    LET n == Len(opportunities)
        rev == [i \in 1..n |-> opportunities[n + 1 - i]]
        r == SortFrom(rev, <<>>, 1)
    IN  [i \in 1..n |-> n + 1 - r[i]]

\* sorted(opportunities, key=lambda x: x['match_score'], reverse=True): the new list,
\* as the positions in `opportunities` of the (same) dict objects it holds.
sorted_desc(opportunities) == SortFrom(opportunities, <<>>, 1)

\* list[:n], with Python's meaning of a negative n
Slice(list, n) ==
    IF n >= 0 THEN SubSeq(list, 1, Min2(n, Len(list)))
    ELSE SubSeq(list, 1, Max2(0, Len(list) + n))

\* opp.get('match_score', 0) >= min_score
Passes(opp, min_score) == (IF HasScore(opp) THEN opp.match_score.v ELSE 0) >= min_score

RECURSIVE Positions(_, _, _)
\* The positions i..Len(opportunities) whose element passes, in order.
Positions(opportunities, min_score, i) ==
    IF i > Len(opportunities) THEN <<>>
    ELSE (IF Passes(opportunities[i], min_score) THEN <<i>> ELSE <<>>)
         \o Positions(opportunities, min_score, i + 1)

\* The returned list, as the positions in `opportunities` of the dicts it holds.
filter_opportunities(opportunities, min_score, max_results) ==
    Ok(Slice(Positions(opportunities, min_score, 1), max_results))

---------------------------------------------------------------------------
(* Inputs *)

\* An opportunity every factor of which matches PerfectUser.
PerfectOpp ==
    [title |-> Val(s_AI_dev), company |-> Val(s_Google_LLC), type |-> Val(s_Internship),
     location |-> Val(s_Austin_TX), remote |-> Val(TRUE), description |-> Val(s_Junior_dev),
     requirements |-> Val(<<>>), skills |-> Val(<<s_Python>>), compensation |-> Val(s_50k),
     is_still_open |-> Val(TRUE), match_score |-> AbsentN]

\* An opportunity with the required title and company only.
PlainOpp ==
    [title |-> Val(s_AI_dev), company |-> Val(s_Acme), type |-> AbsentS,
     location |-> AbsentS, remote |-> AbsentB, description |-> AbsentS,
     requirements |-> AbsentS, skills |-> AbsentS, compensation |-> AbsentS,
     is_still_open |-> AbsentB, match_score |-> AbsentN]

OppFields == {"title", "company", "type", "location", "remote", "description",
              "requirements", "skills", "compensation", "is_still_open"}

OppDom(f) ==
    CASE f = "title" -> {AbsentS, NullS, Val(s_AI_dev)}
      [] f = "company" -> {AbsentS, NullS, Val(s_Google_LLC), Val(s_Acme)}
      [] f = "type" -> {AbsentS, NullS, Val(s_Internship), Val(s_grant)}
      [] f = "location" -> {AbsentS, NullS, Val(s_Austin_TX), Val(s_Berlin)}
      [] f = "remote" -> {AbsentB, Val(TRUE), Val(FALSE)}
      [] f = "description" -> {AbsentS, NullS, Val(s_Junior_dev), Val(s_Senior_graduate),
                               Val(s_Team_lead)}
      [] f = "requirements" -> {AbsentS, NullS, Val(<<>>), Val(<<s_3plus_years>>)}
      [] f = "skills" -> {AbsentS, NullS, Val(<<>>), Val(<<s_Python>>), Val(<<s_SQL>>),
                          Val(<<s_Cooking>>)}
      [] f = "compensation" -> {AbsentS, NullS, Val(s_50k)}
      [] f = "is_still_open" -> {AbsentB, NullB, Val(TRUE), Val(FALSE)}

RECURSIVE Ball(_, _)
\* The opportunities that differ from one of S in at most d fields.
Ball(S, d) ==
    IF d = 0 THEN S
    ELSE Ball(S \cup UNION {{[o EXCEPT ![f] = v] : o \in S, v \in OppDom(f)} : f \in OppFields},
              d - 1)

\* The opportunities a direct calculate_match_score call is given.
ScoreInputs == Ball({PerfectOpp, PlainOpp}, MaxDiff)

AbsentUser ==
    [skills |-> AbsentS, interests |-> AbsentS, education |-> AbsentS,
     experience |-> AbsentN, locations |-> AbsentS, types |-> AbsentS,
     remote_only |-> AbsentB, companies |-> AbsentS, salary_min |-> AbsentN,
     keywords |-> AbsentS]

PerfectUser ==
    [skills |-> Val(<<s_Python>>), interests |-> Val(<<s_ai>>), education |-> AbsentS,
     experience |-> Val(1), locations |-> Val(<<s_Berlin, s_Austin>>), types |-> AbsentS,
     remote_only |-> AbsentB, companies |-> Val(<<s_google>>), salary_min |-> Val(50000),
     keywords |-> Val(<<s_ai>>)]

\* The raw user maps create_user_profile is given.
Users ==
    {AbsentUser, PerfectUser,
     [PerfectUser EXCEPT !.skills = Val(<<>>), !.remote_only = Val(TRUE)],
     [PerfectUser EXCEPT !.skills = Val(<<s_SQL>>), !.keywords = Val(<<s_ai, s_ml>>),
                         !.experience = Val(8)],
     [PerfectUser EXCEPT !.interests = Val(<<>>), !.keywords = Val(<<s_AI, s_ml>>)],
     [PerfectUser EXCEPT !.skills = Val(<<s_Cooking>>), !.types = Val(<<s_grant>>),
                         !.keywords = Val(<<s_ai, s_ai, s_ml>>), !.experience = Val(3),
                         !.locations = Val(<<>>), !.companies = Val(<<s_Acme>>)]}

\* The opportunities of the lists handed to rank_opportunities.
OppPool ==
    {PerfectOpp, PlainOpp,
     [PerfectOpp EXCEPT !.is_still_open = Val(FALSE)],
     [PerfectOpp EXCEPT !.requirements = NullS],
     [PlainOpp EXCEPT !.skills = Val(<<s_SQL>>), !.remote = Val(TRUE)]}

RECURSIVE Lists(_, _)
\* The lists over S of length at most n.
Lists(S, n) ==
    IF n = 0 THEN {<<>>}
    ELSE LET shorter == Lists(S, n - 1)
         IN  shorter \cup {Append(l, x) : l \in shorter, x \in S}

\* The rounding of the float quotient, in units.
FpErrs == {-1, 0, 1}

Points(p) == p * FUnit * WUnit

\* min_score arguments (default 70.0) and max_results arguments (default 50).
MinScores == {Points(-10), Points(0), Points(60), Points(70), Points(100), Points(150)}

MaxResultss == {-1, 0, 1, 2, 50}

NoFilt == [called |-> FALSE, min_score |-> 0, max_results |-> 0, out |-> Ok(<<>>)]

NoRes == [kind |-> "none", v |-> 0, e |-> "none"]

NoCalls == [profile |-> 0, opp |-> 0]

---------------------------------------------------------------------------
(* BaseCrawler.crawl: its constants and the answers of requests.get *)

\* retries = 3  (line 11)
retries == 3

\* A backoff that does not grow: one second after every failure.
backoff_constant(attempt) == 1

\* 2 ** attempt  (line 22)
backoff(attempt) == 2 ^ attempt

\* The urls crawl is called with.
Urls == {"https://jobs.example/search?q=ai", "https://jobs.example/view/1"}

\* self.rate_limit (default 1).
RateLimits == {0, 1, 2}

\* response.text of an answer that passes raise_for_status.
Texts == {"<html>listing</html>", "<html>busy, try later</html>"}

\* The requests.RequestException an attempt may end on: from requests.get (line 14) or
\* from raise_for_status (line 15).
RequestExceptions == {"ConnectionError", "Timeout", "HTTPError"}

\* No crawl call is under way.
NoCrawl ==
    [pc |-> "idle", url |-> "", rate_limit |-> 1, attempt |-> 0, log |-> <<>>,
     slept |-> <<>>, out |-> NoRes]

---------------------------------------------------------------------------
(* Direct calls of calculate_match_score: the specification SpecScore *)

InitScore ==
    /\ fpErr \in FpErrs
    /\ \E user_data \in Users : profile = create_user_profile(user_data)
    /\ arg \in ScoreInputs
    /\ res = NoRes
    /\ opps = <<>>
    /\ opps0 = <<>>
    /\ ranked = <<>>
    /\ rankI = 0
    /\ filt = NoFilt
    /\ calls = NoCalls
    /\ err = "none"
    /\ pc = "score"
    /\ crawl = NoCrawl

\* score = engine.calculate_match_score(arg, profile)
ScoreCall ==
    /\ pc = "score"
    /\ \E encodeOk \in BOOLEAN :
         /\ res' = calculate_match_score(arg, profile, encodeOk, fpErr)
         /\ err' = res'.e
    /\ calls' = Requested(calls, score_requests(arg, profile))
    /\ pc' = "scored"
    /\ UNCHANGED <<crawl, fpErr, profile, arg, opps, opps0, ranked, rankI, filt>>

NextScore == ScoreCall

SpecScore == InitScore /\ [][NextScore]_vars

---------------------------------------------------------------------------
(* A ranking session: the specification Spec *)

\* The score is stored and the record normalised on the way (is_still_open defaulted).
set_match_score_normalising(opp, score) ==
    [opp EXCEPT !.match_score = Val(score),
                !.is_still_open = IF @.k = "val" THEN @ ELSE Val(TRUE)]

\* The score is written to a copy of the record: the caller's record stays as it was.
set_match_score_on_copy(opp, score) == opp

\* opp['match_score'] = score  (line 257)
set_match_score(opp, score) == [opp EXCEPT !.match_score = Val(score)]

\* The list rank_opportunities returned, as records.
RankedList == [i \in 1..Len(ranked) |-> opps[ranked[i]]]

\* Embedding requests create_user_profile makes for a raw user map.
ProfileRequests(user_data) ==
    (IF GetOr(user_data.skills, <<>>) # <<>> THEN 1 ELSE 0)
    + (IF GetOr(user_data.interests, <<>>) # <<>> THEN 1 ELSE 0)

Init ==
    /\ fpErr \in FpErrs
    /\ profile = NoProfile
    /\ arg = PlainOpp
    /\ res = NoRes
    /\ opps \in Lists(OppPool, MaxOpps)
    /\ opps0 = opps
    /\ ranked = <<>>
    /\ rankI = 0
    /\ filt = NoFilt
    /\ calls = NoCalls
    /\ err = "none"
    /\ pc = "start"
    /\ crawl = NoCrawl

\* profile = engine.create_user_profile(user_data); the provider may fail on the
\* first text it is asked to embed.
CreateProfile ==
    /\ pc = "start"
    /\ \E user_data \in Users, encodeOk \in BOOLEAN :
         IF ProfileRequests(user_data) > 0 /\ ~encodeOk
         THEN /\ err' = "EmbeddingError"
              /\ pc' = "profile_raised"
              /\ calls' = [calls EXCEPT !.profile = @ + 1]
              /\ UNCHANGED profile
         ELSE /\ profile' = create_user_profile(user_data)
              /\ calls' = [calls EXCEPT !.profile = @ + ProfileRequests(user_data)]
              /\ pc' = "profiled"
              /\ UNCHANGED err
    /\ UNCHANGED <<crawl, fpErr, arg, res, opps, opps0, ranked, rankI, filt>>

\* rank_opportunities is entered (line 253).
RankBegin ==
    /\ pc = "profiled"
    /\ opps0' = opps
    /\ rankI' = 0
    /\ pc' = "ranking"
    /\ UNCHANGED <<crawl, fpErr, profile, arg, res, opps, ranked, filt, calls, err>>

\* One iteration of the loop of lines 256-257.
RankStep ==
    /\ pc = "ranking"
    /\ rankI < Len(opps)
    /\ \E encodeOk \in BOOLEAN :
         LET opp == opps[rankI + 1]
             score == calculate_match_score(opp, profile, encodeOk, fpErr)
         IN  IF score.kind = "ok"
             THEN /\ opps' = [opps EXCEPT ![rankI + 1] = set_match_score(opp, score.v)]
                  /\ rankI' = rankI + 1
                  /\ UNCHANGED <<err, pc>>
             ELSE /\ err' = score.e
                  /\ pc' = "rank_raised"
                  /\ UNCHANGED <<opps, rankI>>
    /\ calls' = Requested(calls, score_requests(opps[rankI + 1], profile))
    /\ UNCHANGED <<crawl, fpErr, profile, arg, res, opps0, ranked, filt>>

\* Lines 260-264: the sort, the log line that reads ranked[0], the return.
RankEnd ==
    /\ pc = "ranking"
    /\ rankI = Len(opps)
    /\ IF Len(opps) = 0
       THEN /\ err' = "IndexError"
            /\ pc' = "rank_raised"
            /\ UNCHANGED ranked
       ELSE /\ ranked' = sorted_desc(opps)
            /\ pc' = "ranked"
            /\ UNCHANGED err
    /\ UNCHANGED <<crawl, fpErr, profile, arg, res, opps, opps0, rankI, filt, calls>>

\* engine.filter_opportunities(ranked, min_score, max_results)
Filter ==
    /\ pc = "ranked"
    /\ \E min_score \in MinScores, max_results \in MaxResultss :
         filt' = [called |-> TRUE, min_score |-> min_score, max_results |-> max_results,
                  out |-> filter_opportunities(RankedList, min_score, max_results)]
    /\ pc' = "filtered"
    /\ UNCHANGED <<crawl, fpErr, profile, arg, res, opps, opps0, ranked, rankI, calls, err>>

\* engine.calculate_match_score(ranked[k], profile): a record of the returned list is
\* scored again, as it is after the pass (with its match_score entry).
Rescore ==
    /\ pc = "ranked"
    /\ \E k \in 1..Len(opps), encodeOk \in BOOLEAN :
         /\ arg' = opps[k]
         /\ res' = calculate_match_score(opps[k], profile, encodeOk, fpErr)
         /\ err' = res'.e
         /\ calls' = Requested(calls, score_requests(opps[k], profile))
    /\ pc' = "rescored"
    /\ UNCHANGED <<crawl, fpErr, profile, opps, opps0, ranked, rankI, filt>>

Next == CreateProfile \/ RankBegin \/ RankStep \/ RankEnd \/ Filter \/ Rescore

Spec == Init /\ [][Next]_vars

---------------------------------------------------------------------------
(* One BaseCrawler.crawl(url) call: the specification SpecCrawl *)

\* crawl(url) is entered on a crawler built with some rate_limit: attempt = 0.
InitCrawl ==
    /\ fpErr = 0
    /\ profile = NoProfile
    /\ arg = PlainOpp
    /\ res = NoRes
    /\ opps = <<>>
    /\ opps0 = <<>>
    /\ ranked = <<>>
    /\ rankI = 0
    /\ filt = NoFilt
    /\ calls = NoCalls
    /\ err = "none"
    /\ pc = "crawl"
    /\ \E url \in Urls, rate_limit \in RateLimits :
         crawl = [NoCrawl EXCEPT !.pc = "loop", !.url = url, !.rate_limit = rate_limit]

\* An iteration whose request is answered and passes raise_for_status (lines 14-17):
\* sleep(self.rate_limit), return response.text.
CrawlReturn ==
    /\ crawl.pc = "loop"
    /\ crawl.attempt < retries
    /\ \E text \in Texts :
         crawl' = [crawl EXCEPT !.log = Append(@, Ok(text)),
                                !.slept = Append(@, crawl.rate_limit),
                                !.out = Ok(text),
                                !.pc = "returned"]
    /\ UNCHANGED matcher_vars

\* An iteration that ends on a requests.RequestException (lines 18-24): back off and go
\* on with the next attempt, or re-raise on the last one.
CrawlExcept ==
    /\ crawl.pc = "loop"
    /\ crawl.attempt < retries
    /\ \E e \in RequestExceptions :
         IF crawl.attempt < retries - 1
         THEN crawl' = [crawl EXCEPT !.log = Append(@, Raise(e)),
                                     !.slept = Append(@, backoff(crawl.attempt)),
                                     !.attempt = @ + 1]
         ELSE crawl' = [crawl EXCEPT !.log = Append(@, Raise(e)),
                                     !.out = Raise(e),
                                     !.pc = "raised"]
    /\ UNCHANGED matcher_vars

NextCrawl == CrawlReturn \/ CrawlExcept

\* The call runs on: every requests.get is answered or raises, and the loop goes on.
SpecCrawl == InitCrawl /\ [][NextCrawl]_vars /\ WF_vars(NextCrawl)

---------------------------------------------------------------------------
(* Claims about calculate_match_score, checked under SpecScore *)

Scored == pc = "scored" /\ res.kind = "ok"

\* The opportunity of the call with is_still_open set to true.
OpenArg == [arg EXCEPT !.is_still_open = Val(TRUE)]

\* The opportunity of the call is explicitly closed.
ArgClosed == arg.is_still_open = Val(FALSE)

\* The penalty of line 231 applies: is_still_open is false or None.
ArgPenalised == arg.is_still_open.k # "absent" /\ ~arg.is_still_open.v

\* C1: every score calculate_match_score returns lies in [0,100], with or without the
\* skill factor, for open and for closed opportunities.
C1_ScoreInRange == Scored => (0 <= res.v /\ res.v <= Hundred)

\* C1 witness: a score was returned for a pair whose weighted sum exceeds 100 (equal
\* skill texts, similarity rounded above 1.0, every other factor at 100).
C1_Witness ==
    /\ Scored
    /\ SkillIncluded(arg, profile)
    /\ weighted_sum(factor_scores(arg, profile, fpErr), factor_weights(arg, profile)) > Hundred
    /\ res.v = Hundred

\* C6, as claimed: unless the embedding provider itself fails, calculate_match_score
\* returns a score whatever optional fields of the opportunity are absent or None.
C6_ScoreNeverFails == (pc = "scored" /\ res.e # "EmbeddingError") => res.kind = "ok"

\* C9, as claimed: the score of a closed opportunity is exactly half the score of the
\* same opportunity when open.
C9_ClosedIsHalfOfOpenScore ==
    (Scored /\ ArgClosed) =>
        2 * res.v = calculate_match_score(OpenArg, profile, TRUE, fpErr).v

\* C9, amended: the score of a closed opportunity is exactly half the weighted sum of
\* the same opportunity when open (the sum before the clamp), hence exactly half its
\* open score whenever that score is below 100.
C9_ClosedIsHalfOfOpenSum ==
    (Scored /\ ArgClosed) =>
        /\ 2 * res.v = weighted_sum(factor_scores(OpenArg, profile, fpErr),
                                    factor_weights(OpenArg, profile))
        /\ calculate_match_score(OpenArg, profile, TRUE, fpErr).v < Hundred
              => 2 * res.v = calculate_match_score(OpenArg, profile, TRUE, fpErr).v

\* C9 witness: a closed opportunity was scored, and its open score is clamped at 100.
C9_Witness ==
    /\ Scored
    /\ ArgClosed
    /\ res.v > 0
    /\ weighted_sum(factor_scores(OpenArg, profile, fpErr),
                    factor_weights(OpenArg, profile)) > Hundred

\* The un-renormalised sum of the five factors other than skill, weights written out.
FiveFactorSum ==
    20 * _match_location(arg, profile) + 15 * _match_type(arg, profile)
    + 10 * _match_experience(arg, profile).v + 10 * _match_company(arg, profile)
    + 5 * _match_keywords(arg, profile).v

\* The opportunity has a non-empty skills list and the profile a skills embedding.
SkillComputable ==
    /\ arg.skills.k = "val" /\ Len(arg.skills.v) > 0
    /\ profile.skills_embedding.k = "val"

\* The skill score of the call: max(0, 100 * cosine similarity).
SkillScore ==
    Max2(0, _cosine_similarity(encode(join(s_comma_space, arg.skills.v)),
                               profile.skills_embedding.v, fpErr))

---------------------------------------------------------------------------
(* Claims about rank_opportunities and filter_opportunities, checked under Spec *)

\* rank_opportunities has returned its list.
RankReturned == pc \in {"ranked", "filtered"}

ScoreAt(i) == opps[i].match_score.v

\* C2: the list rank_opportunities returns holds every input record once, is sorted
\* non-increasing by match score, and keeps records of equal score in input order.
C2_RankSortedAndStable ==
    RankReturned =>
        /\ Len(ranked) = Len(opps)
        /\ \A i \in 1..Len(opps) : \E j \in 1..Len(ranked) : ranked[j] = i
        /\ \A i, j \in 1..Len(ranked) :
              i < j => /\ ScoreAt(ranked[i]) >= ScoreAt(ranked[j])
                       /\ ScoreAt(ranked[i]) = ScoreAt(ranked[j]) => ranked[i] < ranked[j]

\* C2 witness: a returned list of three in which two records tie and the order of the
\* input was changed.
C2_Witness ==
    /\ pc = "ranked"
    /\ Len(ranked) = 3
    /\ ranked # <<1, 2, 3>>
    /\ \E i, j \in 1..3 : i < j /\ ScoreAt(ranked[i]) = ScoreAt(ranked[j])

\* An opportunity record without its match_score entry.
OtherFields(opp) == [f \in OppFields |-> opp[f]]

\* C3, as claimed: after rank_opportunities returns, every input record is as it was
\* passed in.
C3_InputsUnchanged == RankReturned => opps = opps0

\* C3, amended: rank_opportunities writes match_score into each input record in place
\* (the returned list holds those same records) and changes no other field of any
\* input record.
C3_OnlyMatchScoreWritten ==
    /\ Len(opps) = Len(opps0)
    /\ \A i \in 1..Len(opps) : OtherFields(opps[i]) = OtherFields(opps0[i])
    /\ RankReturned =>
          \A i \in 1..Len(opps) :
              /\ HasScore(opps[i])
              /\ \E j \in 1..Len(ranked) : RankedList[j] = opps[i]

\* C3 witness: rank_opportunities returned and the input records carry scores they did
\* not have, among them a record with absent optional fields.
C3_Witness ==
    /\ pc = "ranked"
    /\ Len(opps) >= 2
    /\ \A i \in 1..Len(opps) : ~HasScore(opps0[i]) /\ HasScore(opps[i])
    /\ \E i \in 1..Len(opps) : opps[i].is_still_open.k = "absent"

\* The positions of the list given to filter_opportunities whose score is >= min_score.
Qualifying == {i \in 1..Len(RankedList) : RankedList[i].match_score.v >= filt.min_score}

\* The list filter_opportunities returned is the first Min(max_results, k) qualifying
\* records of its input, in input order.
FilterIsPrefixOfQualifying ==
    LET out == filt.out.v
    IN  /\ \A j \in 1..Len(out) : out[j] \in Qualifying
        /\ Len(out) <= filt.max_results
        /\ Len(out) = Min2(filt.max_results, Cardinality(Qualifying))
        /\ \A j \in 1..Len(out) : Cardinality({i \in Qualifying : i < out[j]}) = j - 1

\* C4, as claimed: for every threshold and every count, the list returned has every
\* score >= the threshold, length at most the count, and is the first min(n, k)
\* qualifying records in unchanged order.
C4_FilterPrefix == (filt.called /\ filt.out.kind = "ok") => FilterIsPrefixOfQualifying

\* C4 for counts that are not negative (what the code does satisfy).
C4_FilterPrefixForCountsFromZero ==
    (filt.called /\ filt.out.kind = "ok" /\ filt.max_results >= 0)
        => FilterIsPrefixOfQualifying

\* C5, as claimed: filter_opportunities fails with InvalidInput when min_score is
\* outside [0,100] or max_results is negative.
C5_FilterRejectsInvalidInput ==
    (/\ filt.called
     /\ \/ filt.min_score < 0
        \/ filt.min_score > Hundred
        \/ filt.max_results < 0)
        => (filt.out.kind = "raise" /\ filt.out.e = "InvalidInput")

\* No optional field of the opportunity is None.
WellFormed(opp) == \A f \in OppFields : opp[f].k # "null"

\* C7, as claimed: for every list of well-formed opportunities, the empty list
\* included, rank_opportunities returns a list (the provider answering).
C7_RankReturnsAList ==
    ~(/\ pc = "rank_raised"
      /\ err # "EmbeddingError"
      /\ \A i \in 1..Len(opps0) : WellFormed(opps0[i]))

\* C8, as claimed: a provider failure while one opportunity's skills are embedded does
\* not abort the ranking pass.
C8_EmbeddingFailureDoesNotAbort == ~(pc = "rank_raised" /\ err = "EmbeddingError")

---------------------------------------------------------------------------
(* Claims about single factors of calculate_match_score, checked under SpecScore *)

\* salary_min entries of a profile: none given (0), the one of the example.
SalaryMins == {0, 50000}

\* C11: the compensation-vs-minimum-salary modifier is inert: a pair that differs from
\* the scored one only in opportunity.compensation and/or profile.salary_min gets the
\* same outcome from calculate_match_score (same score, or the same exception), the
\* provider answering the one call as it answered the other.
C11_CompensationInert ==
    pc = "scored" =>
        \A compensation \in OppDom("compensation"), salary_min \in SalaryMins :
            calculate_match_score([arg EXCEPT !.compensation = compensation],
                                  [profile EXCEPT !.salary_min = salary_min],
                                  res.e # "EmbeddingError", fpErr) = res

\* C11 witness: a score below 100 was returned for an opportunity that names a
\* compensation and a profile that names a minimum salary (the branch of line 235 is
\* entered), so a bonus would have shown.
C11_Witness ==
    /\ Scored
    /\ Truthy(arg.compensation)
    /\ profile.salary_min = 50000
    /\ res.v > 0 /\ res.v < Points(90)

\* The score calculate_match_score returns when its location, experience and keyword
\* factors are the given factor scores (the other factors as computed).
ScoreWith(location, experience, keyword) ==
    LET sum == (IF SkillComputable THEN 40 * SkillScore ELSE 0)
               + 20 * location + 15 * _match_type(arg, profile)
               + 10 * experience + 10 * _match_company(arg, profile)
               + 5 * keyword
        modified == IF ArgPenalised THEN sum \div 2 ELSE sum
    IN  Max2(0, Min2(Hundred, modified))

\* The location factor as the ordered checks decide it, in points.
LocationAsClaimed ==
    LET remote == arg.remote.k = "val" /\ arg.remote.v
        location == lower(IF arg.location.k = "val" THEN arg.location.v ELSE <<>>)
        preferred == profile.preferred_locations
    IN  IF profile.remote_only /\ remote THEN 100
        ELSE IF \E i \in 1..Len(preferred) : Contains(lower(preferred[i]), location) THEN 100
        ELSE IF remote THEN 70
        ELSE 0

\* C13: the location factor is 100 if the profile is remote-only and the opportunity
\* remote (whatever the preferred locations); otherwise 100 if a lower-cased preferred
\* location is a substring of the lower-cased opportunity location (an absent location
\* being the empty string); otherwise 70 if the opportunity is remote; otherwise 0; and
\* the returned score is the one that factor gives.
C13_LocationOrderedChecks ==
    pc = "scored" =>
        /\ _match_location(arg, profile) = LocationAsClaimed * FUnit
        /\ Scored =>
              res.v = ScoreWith(LocationAsClaimed * FUnit,
                                _match_experience(arg, profile).v,
                                _match_keywords(arg, profile).v)

\* C13 witness: a remote opportunity without a location was scored for a remote-only
\* profile that prefers locations: the shortcut gives 100 where the list gives nothing.
C13_Witness ==
    /\ Scored
    /\ profile.remote_only /\ profile.preferred_locations # <<>>
    /\ arg.remote = Val(TRUE) /\ arg.location.k = "absent"
    /\ _match_location(arg, profile) = P(100)

\* The text the experience tiers are looked up in: the lower-cased description, a
\* space, the lower-cased requirements joined by spaces.
ExperienceText ==
    lower(IF arg.description.k = "val" THEN arg.description.v ELSE <<>>)
    \o <<" ">>
    \o lower(join(<<" ">>, IF arg.requirements.k = "val" THEN arg.requirements.v ELSE <<>>))

EntryTier == \E w \in {s_entry_level, s_junior, s_internship, s_graduate} :
                Contains(w, ExperienceText)

MidTier == \E w \in {s_mid_level, s_2_5_years, s_3plus_years} : Contains(w, ExperienceText)

SeniorTier == \E w \in {s_senior, s_5plus_years, s_lead, s_principal} :
                 Contains(w, ExperienceText)

\* The experience factor as the ordered tiers decide it, in points.
ExperienceAsClaimed ==
    LET experience_years == profile.experience_years
    IN  IF EntryTier THEN (IF experience_years <= 2 THEN 100 ELSE 50)
        ELSE IF MidTier THEN (IF 2 <= experience_years /\ experience_years <= 5
                              THEN 100 ELSE 50)
        ELSE IF SeniorTier THEN (IF experience_years >= 5 THEN 100 ELSE 30)
        ELSE 50

\* C14: the experience factor applies its tiers in the order entry, mid, senior and the
\* first tier with a word in the text decides (entry: 100 if experience_years <= 2 else
\* 50; mid: 100 if 2 <= experience_years <= 5 else 50; senior: 100 if
\* experience_years >= 5 else 30; none: 50); a text with both an entry-tier and a
\* senior-tier word is scored by the entry tier only; and the returned score is the one
\* that factor gives.
C14_ExperienceFirstTierWins ==
    (pc = "scored" /\ _match_experience(arg, profile).kind = "ok") =>
        /\ _match_experience(arg, profile).v = ExperienceAsClaimed * FUnit
        /\ (EntryTier /\ SeniorTier) =>
              _match_experience(arg, profile).v
                  = (IF profile.experience_years <= 2 THEN 100 ELSE 50) * FUnit
        /\ Scored =>
              res.v = ScoreWith(_match_location(arg, profile),
                                ExperienceAsClaimed * FUnit,
                                _match_keywords(arg, profile).v)

\* C14 witness: a description with an entry-tier and a senior-tier word ("Senior
\* graduate") was scored for a profile with eight years: 50 by the entry tier, where
\* the senior tier would give 100.
C14_Witness ==
    /\ Scored
    /\ EntryTier /\ SeniorTier
    /\ profile.experience_years = 8
    /\ _match_experience(arg, profile).v = P(50)

\* The text keywords are looked up in: title, description and the skills joined by
\* spaces, joined by spaces and lower-cased (an absent field being empty).
KeywordText ==
    lower((IF arg.title.k = "val" THEN arg.title.v ELSE <<>>)
          \o <<" ">>
          \o (IF arg.description.k = "val" THEN arg.description.v ELSE <<>>)
          \o <<" ">>
          \o join(<<" ">>, IF arg.skills.k = "val" THEN arg.skills.v ELSE <<>>))

\* The keyword factor returned a value.
KeywordScored == pc = "scored" /\ _match_keywords(arg, profile).kind = "ok"

\* The factor is 50 for an empty list and else 100 * found / Len(list), `found` being
\* the number of list positions whose entry is found; the returned score is the one
\* that factor gives.
KeywordFactorIs(found) ==
    LET n == Len(profile.keywords)
        claimed == IF n = 0 THEN 50 * FUnit ELSE (100 * FUnit * found) \div n
    IN  /\ n > 0 => claimed * n = 100 * FUnit * found
        /\ _match_keywords(arg, profile).v = claimed
        /\ Scored => res.v = ScoreWith(_match_location(arg, profile),
                                       _match_experience(arg, profile).v,
                                       claimed)

\* C15, as claimed: the keyword factor is 50 when the keyword list is empty, else 100
\* times the number of entries of the list that are substrings of the lower-cased
\* text, divided by the length of the list, each entry counted on its own.
C15_KeywordFractionOfEntries ==
    KeywordScored =>
        KeywordFactorIs(Cardinality({i \in 1..Len(profile.keywords) :
                                        Contains(profile.keywords[i], KeywordText)}))

\* C15, amended: as claimed, but the entries are lower-cased too before they are looked
\* up, so the match is case-insensitive: the keyword "AI" is found in "AI dev".
C15_KeywordFractionCaseInsensitive ==
    KeywordScored =>
        KeywordFactorIs(Cardinality({i \in 1..Len(profile.keywords) :
                                        Contains(lower(profile.keywords[i]), KeywordText)}))

\* C15 witness: the list <<"AI", "ml">> was scored against a text with "ai" and
\* without "ml": one of two entries is found, the factor is 50.
C15_Witness ==
    /\ Scored
    /\ profile.keywords = <<s_AI, s_ml>>
    /\ Contains(s_ai, KeywordText) /\ ~Contains(s_ml, KeywordText)
    /\ _match_keywords(arg, profile).v = P(50)

---------------------------------------------------------------------------
(* Claims about create_user_profile, checked under Spec *)

\* C12: the profile create_user_profile returns has a skills embedding if and only if
\* its skills list is non-empty, and an interests embedding if and only if its
\* interests list is non-empty.
C12_EmbeddingIffNonEmpty ==
    profile.built =>
        /\ (profile.skills_embedding.k = "val") <=> (Len(profile.skills) > 0)
        /\ (profile.interests_embedding.k = "val") <=> (Len(profile.interests) > 0)

\* C12 witness: a profile was returned whose skills list is empty and has no embedding
\* while its interests list is not empty and has one.
C12_Witness ==
    /\ pc = "profiled"
    /\ profile.skills = <<>> /\ profile.skills_embedding.k = "absent"
    /\ profile.interests # <<>> /\ profile.interests_embedding.k = "val"

---------------------------------------------------------------------------
(* Claims about a whole session, checked under Spec *)

PassUnfinished == pc \in {"ranking", "rank_raised"}

\* C17, as claimed: abandoning a ranking pass at any point, after any number of records
\* have been scored or when scoring one fails, leaves every input record as it was
\* before the pass started.
C17_AbandonLeavesInputsAsBefore == PassUnfinished => opps = opps0

\* C17, amended: at whatever point a ranking pass is abandoned, the records scored so
\* far carry the match_score the pass wrote into them, the records not yet scored
\* are as they were before the pass started, no other field of any record has changed
\* and no list has been returned.
C17_AbandonLeavesScoredPrefix ==
    PassUnfinished =>
        /\ Len(opps) = Len(opps0)
        /\ rankI <= Len(opps)
        /\ ranked = <<>>
        /\ \A i \in 1..Len(opps) :
              /\ OtherFields(opps[i]) = OtherFields(opps0[i])
              /\ i <= rankI => HasScore(opps[i])
              /\ i > rankI => opps[i] = opps0[i]

\* C17 witness: a pass over at least two records ended on an exception after it had
\* scored the first: that record has a match_score it did not have, the failing one
\* has none.
C17_Witness ==
    /\ pc = "rank_raised"
    /\ rankI >= 1 /\ rankI < Len(opps)
    /\ HasScore(opps[1]) /\ ~HasScore(opps0[1])
    /\ ~HasScore(opps[rankI + 1])

\* The number of records the ranking pass has called calculate_match_score for: those
\* scored, and the one whose scoring raised.
Asked == IF pc = "rank_raised" /\ err # "IndexError" THEN rankI + 1 ELSE rankI

\* C18: in a session the profile's skills and interests texts are embedded only by
\* create_user_profile, at most once each; a ranking pass requests no embedding of
\* profile text, and of the records it scores it requests exactly one embedding for each
\* record with a non-empty skills list when the profile has a skills embedding, and
\* none when it has not.
C18_EmbeddingRequests ==
    /\ calls.profile <= 2
    /\ pc = "start" => calls.profile = 0
    /\ profile.built =>
          calls.profile = (IF Len(profile.skills) > 0 THEN 1 ELSE 0)
                          + (IF Len(profile.interests) > 0 THEN 1 ELSE 0)
    /\ pc \in {"profiled", "ranking", "rank_raised", "ranked", "filtered"} =>
          calls.opp =
              IF profile.skills_embedding.k = "val"
              THEN Cardinality({i \in 1..Asked :
                                   opps[i].skills.k = "val" /\ Len(opps[i].skills.v) > 0})
              ELSE 0

\* C18 witness: a pass over three records, one of them without skills, has returned for
\* a profile with both embeddings: two requests for the profile, two for the records.
C18_Witness ==
    /\ pc = "ranked"
    /\ Len(opps) = 3
    /\ profile.skills_embedding.k = "val" /\ profile.interests_embedding.k = "val"
    /\ \E i \in 1..3 : ~Truthy(opps[i].skills)
    /\ calls = [profile |-> 2, opp |-> 2]

---------------------------------------------------------------------------
(* Claims about BaseCrawler.crawl, checked under SpecCrawl *)

\* The first n attempts of the call all ended on a request error.
AllFailed(n) == \A i \in 1..n : crawl.log[i].kind = "raise"

\* What the call has slept after n failed attempts: 1 second, then 2.
BackoffsAfter(n) == SubSeq(<<1, 2>>, 1, n)

\* The attempts made, the sleeps and the outcome fit at every point of the call.
C19_CrawlState ==
    LET n == Len(crawl.log)
    IN  /\ n <= 3
        /\ crawl.pc = "loop" =>
              /\ n < 3
              /\ AllFailed(n)
              /\ crawl.slept = BackoffsAfter(n)
        /\ crawl.pc = "returned" =>
              /\ n >= 1
              /\ AllFailed(n - 1)
              /\ crawl.log[n].kind = "ok"
              /\ crawl.out = Ok(crawl.log[n].v)
              /\ crawl.slept = BackoffsAfter(n - 1) \o <<crawl.rate_limit>>
        /\ crawl.pc = "raised" =>
              /\ n = 3
              /\ AllFailed(3)
              /\ crawl.out = Raise(crawl.log[3].e)
              /\ crawl.slept = <<1, 2>>

\* The call has returned a text or raised.
CrawlEnded == crawl.pc \in {"returned", "raised"}

\* C19: BaseCrawler.crawl makes at most 3 request attempts for a url; it returns the
\* response text of the first successful attempt and makes no attempt after it; after a
\* failed first or second attempt it backs off (1 second, then 2) and tries again; after
\* a third failure in a row it re-raises that request error; and it always ends in one
\* of these two ways.
C19_CrawlRetriesThenEnds == []C19_CrawlState /\ <>CrawlEnded

\* C19 witness: the call returned the text of its third attempt, having slept 1 and 2
\* seconds after the two failures and the rate limit of 2 seconds after the answer.
C19_Witness ==
    /\ crawl.pc = "returned"
    /\ Len(crawl.log) = 3
    /\ crawl.rate_limit = 2
    /\ crawl.slept = <<1, 2, 2>>
    /\ crawl.out.kind = "ok"

=============================================================================
